---------------------------- MODULE Spec2Model ----------------------------
(***************************************************************************)
(* Model of ss2csv.py: read match.html, extract one row per scoreboard     *)
(* item, pick a free output name, write the CSV, report.                   *)
(*                                                                         *)
(* Text is a sequence of one-character strings.  Characters outside ASCII  *)
(* are written by their code point ("U+0394" is the Greek capital delta).  *)
(* A file is a record [exists, data]; data is the sequence of characters   *)
(* stored in it.  The parsed document is a sequence of element nodes       *)
(* [tag, cls, text, kids]: cls is the set of the element's classes, text   *)
(* the string directly inside it, kids its child elements in document      *)
(* order.                                                                  *)
(*                                                                         *)
(* The output is small enough to stay in the buffer of the file object     *)
(* until the with block closes it.  Failures of the operating system on    *)
(* the output side (no permission, disk full) are not modelled; a failure  *)
(* to open, decode or parse match.html is.                                 *)
(***************************************************************************)
EXTENDS Integers, Sequences, FiniteSets, TLC

VARIABLES
    fs,            \* the directory: path -> [exists, data]
    html,          \* match.html: [readable, doc]
    pc,            \* per run: position in the script
    soup,          \* per run: the parsed document (line 16)
    items,         \* per run: result of soup.find_all(...) (line 19)
    n,             \* per run: index of the next item of the for loop
    rows,          \* per run: rows (line 18)
    i,             \* per run: counter of next_available_filename (line 8)
    csv_filename,  \* per run: line 29
    out,           \* per run: text written to the open file, not yet flushed
    stdout,        \* per run: what print wrote (line 36)
    before,        \* history: the directory as it was when the run began
    created,       \* history: <<run, path>> in the order open() created files
    clobbered      \* history: <<run, path>> of every open() that truncated a file

vars == <<fs, html, pc, soup, items, n, rows, i, csv_filename, out, stdout,
          before, created, clobbered>>

-----------------------------------------------------------------------------
(* Bounds of the model *)

NumProcs == 3
MaxPre == 3
MaxItems == 2
MaxKids == 3
NumRacers == 2

Procs == 1..NumProcs
Racers == 1..NumRacers
MaxIndex == MaxPre + NumProcs

-----------------------------------------------------------------------------
(* Text *)

Whitespace == {" ", "\t", "\n", "\r"}

RECURSIVE lstrip(_)
lstrip(s) == IF s # <<>> /\ Head(s) \in Whitespace THEN lstrip(Tail(s)) ELSE s

RECURSIVE rstrip(_)
rstrip(s) ==
    IF s # <<>> /\ s[Len(s)] \in Whitespace
    THEN rstrip(SubSeq(s, 1, Len(s) - 1))
    ELSE s

strip(s) == rstrip(lstrip(s))

-----------------------------------------------------------------------------
(* The parsed document *)

None == [tag |-> "None", cls |-> {}, text |-> <<>>, kids |-> <<>>]

Elem(tag, cls, text, kids) ==
    [tag |-> tag, cls |-> cls, text |-> text, kids |-> kids]

\* Every element below a sequence of elements, in document order.
RECURSIVE descendants(_)
descendants(els) ==
    IF els = <<>> THEN <<>>
    ELSE <<Head(els)>> \o descendants(Head(els).kids) \o descendants(Tail(els))

\* Tag.text: every string inside the element, concatenated.
RECURSIVE text(_)
RECURSIVE texts(_)
text(el) == el.text \o texts(el.kids)
texts(els) == IF els = <<>> THEN <<>> ELSE text(Head(els)) \o texts(Tail(els))

\* Mutant: the class is not looked at.
find_all_any_class(els, tag, class_) ==
    LET Match(e) == e.tag = tag
    IN  SelectSeq(descendants(els), Match)

find_all(els, tag, class_) ==
    LET Match(e) == e.tag = tag /\ class_ \in e.cls
    IN  SelectSeq(descendants(els), Match)

find_all_tag(els, tag) ==
    LET Match(e) == e.tag = tag
    IN  SelectSeq(descendants(els), Match)

find(el, tag, class_) ==
    LET r == find_all(el.kids, tag, class_)
    IN  IF r = <<>> THEN None ELSE r[1]

find_tag(el, tag) ==
    LET r == find_all_tag(el.kids, tag)
    IN  IF r = <<>> THEN None ELSE r[1]

-----------------------------------------------------------------------------
(* Lines 20-26: the row of one scoreboard item *)

username(item) == find(item, "span", "trn-ign__username")
discrim(item) == find(item, "span", "trn-ign__discriminator")
rank(item) == find(item, "div", "rank")

\* Mutant: without a label the text of the container is taken.
rank_val_container(item) ==
    IF rank(item) # None
    THEN IF find_tag(rank(item), "span") # None
         THEN strip(text(find_tag(rank(item), "span")))
         ELSE strip(text(rank(item)))
    ELSE <<>>

rank_val(item) ==
    IF rank(item) # None /\ find_tag(rank(item), "span") # None
    THEN strip(text(find_tag(rank(item), "span")))
    ELSE <<>>

\* Mutant: "or" for "and": one element alone gives its text.
player_partial(item) ==
    IF username(item) # None \/ discrim(item) # None
    THEN strip(text(username(item))) \o strip(text(discrim(item)))
    ELSE <<>>

player(item) ==
    IF username(item) # None /\ discrim(item) # None
    THEN strip(text(username(item))) \o strip(text(discrim(item)))
    ELSE <<>>

\* Mutant: the cells are padded or cut to the 14 columns of the header.
stats_padded(item) ==
    LET vs == find_all(item.kids, "div", "value")
    IN  [k \in 1..14 |-> IF k <= Len(vs) THEN strip(text(vs[k])) ELSE <<>>]

stats(item) ==
    LET vs == find_all(item.kids, "div", "value")
    IN  [k \in 1..Len(vs) |-> strip(text(vs[k]))]

row(item) == <<player(item), rank_val(item)>> \o stats(item)

-----------------------------------------------------------------------------
(* csv.writer with the default dialect (line 31) *)

delimiter == ","
quotechar == "\""
lineterminator == <<"\r", "\n">>

needs_quotes(field) ==
    \E k \in 1..Len(field) : field[k] \in {delimiter, quotechar, "\r", "\n"}

RECURSIVE doublequote(_)
doublequote(field) ==
    IF field = <<>> THEN <<>>
    ELSE (IF Head(field) = quotechar THEN <<quotechar, quotechar>>
          ELSE <<Head(field)>>) \o doublequote(Tail(field))

format_field(field) ==
    IF needs_quotes(field)
    THEN <<quotechar>> \o doublequote(field) \o <<quotechar>>
    ELSE field

RECURSIVE join_fields(_)
join_fields(r) ==
    IF r = <<>> THEN <<>>
    ELSE IF Len(r) = 1 THEN format_field(r[1])
    ELSE format_field(r[1]) \o <<delimiter>> \o join_fields(Tail(r))

\* A row of one empty field is written as "" so that it is not an empty line.
writerow(r) ==
    (IF Len(r) = 1 /\ r[1] = <<>> THEN <<quotechar, quotechar>>
     ELSE join_fields(r)) \o lineterminator

\* Line 32.
header ==
    << <<"p","l","a","y","e","r">>, <<"r","a","n","k">>, <<"T","R","S">>,
       <<"A","C","S">>, <<"K">>, <<"D">>, <<"A">>, <<"+","/","-">>,
       <<"K","/","D">>, <<"D","D","U+0394">>, <<"A","D","R">>,
       <<"H","S","%">>, <<"K","A","S","T">>, <<"F","K">>, <<"F","D">>,
       <<"M","K">> >>

-----------------------------------------------------------------------------
(* The directory *)

base == "match_stats.csv"
\* Mutant: the underscore before the counter is left out.
candidate_no_sep(k) == "match_stats" \o ToString(k) \o ".csv"

candidate(k) == "match_stats_" \o ToString(k) \o ".csv"

Paths == {base} \cup {candidate(k) : k \in 1..MaxIndex}

Absent == [exists |-> FALSE, data |-> <<>>]

exists(path) == fs[path].exists

\* open(path, "w"): the file is created, or cut to length 0 when it exists.
open_w(path) == [fs EXCEPT ![path] = [exists |-> TRUE, data |-> <<>>]]

\* The buffered text reaches the file when the with block closes it: it is
\* written from offset 0 over whatever the file then holds.
flush(path, buf) ==
    [fs EXCEPT ![path] =
        [exists |-> TRUE,
         data |-> buf \o SubSeq(fs[path].data, Len(buf) + 1, Len(fs[path].data))]]

\* Line 36.
message(path, count) ==
    path \o " dosyasU+0131na " \o ToString(count)
         \o " oyuncu baU+015FarU+0131yla yazU+0131ldU+0131."

-----------------------------------------------------------------------------
(* One run of the script *)

Final == {"done", "crashed"}

\* Mutant: a failure to read is swallowed and the run goes on with no document.
ReadInput_swallow(p) ==
    /\ pc[p] = "read"
    /\ before' = [before EXCEPT ![p] = fs]
    /\ soup' = [soup EXCEPT ![p] = html.doc]
    /\ items' = [items EXCEPT ![p] =
                    find_all(html.doc, "div", "st-content__item")]
    /\ n' = [n EXCEPT ![p] = 1]
    /\ pc' = [pc EXCEPT ![p] = "loop"]
    /\ UNCHANGED <<fs, html, rows, i, csv_filename, out, stdout, created, clobbered>>

\* Lines 15-19: open and parse match.html; any failure ends the run.
ReadInput(p) ==
    /\ pc[p] = "read"
    /\ before' = [before EXCEPT ![p] = fs]
    /\ IF html.readable
       THEN /\ soup' = [soup EXCEPT ![p] = html.doc]
            /\ items' = [items EXCEPT ![p] =
                            find_all(html.doc, "div", "st-content__item")]
            /\ n' = [n EXCEPT ![p] = 1]
            /\ pc' = [pc EXCEPT ![p] = "loop"]
       ELSE /\ pc' = [pc EXCEPT ![p] = "crashed"]
            /\ UNCHANGED <<soup, items, n>>
    /\ UNCHANGED <<fs, html, rows, i, csv_filename, out, stdout, created, clobbered>>

\* Mutant: the row is put in front of the rows found so far.
ExtractItem_prepend(p) ==
    /\ pc[p] = "loop"
    /\ n[p] <= Len(items[p])
    /\ rows' = [rows EXCEPT ![p] = <<row(items[p][n[p]])>> \o rows[p]]
    /\ n' = [n EXCEPT ![p] = n[p] + 1]
    /\ UNCHANGED <<fs, html, pc, soup, items, i, csv_filename, out, stdout,
                   before, created, clobbered>>

\* Lines 19-27: one iteration of the extraction loop.
ExtractItem(p) ==
    /\ pc[p] = "loop"
    /\ n[p] <= Len(items[p])
    /\ rows' = [rows EXCEPT ![p] = Append(rows[p], row(items[p][n[p]]))]
    /\ n' = [n EXCEPT ![p] = n[p] + 1]
    /\ UNCHANGED <<fs, html, pc, soup, items, i, csv_filename, out, stdout,
                   before, created, clobbered>>

\* Mutant: the counter starts at 2.
ProbeBase_from2(p) ==
    /\ pc[p] = "loop"
    /\ n[p] > Len(items[p])
    /\ IF ~exists(base)
       THEN /\ csv_filename' = [csv_filename EXCEPT ![p] = base]
            /\ pc' = [pc EXCEPT ![p] = "open"]
            /\ UNCHANGED i
       ELSE /\ i' = [i EXCEPT ![p] = 2]
            /\ pc' = [pc EXCEPT ![p] = "probe"]
            /\ UNCHANGED csv_filename
    /\ UNCHANGED <<fs, html, soup, items, n, rows, out, stdout, before,
                   created, clobbered>>

\* Mutant: base is returned without the existence check.
ProbeBase_unchecked(p) ==
    /\ pc[p] = "loop"
    /\ n[p] > Len(items[p])
    /\ csv_filename' = [csv_filename EXCEPT ![p] = base]
    /\ pc' = [pc EXCEPT ![p] = "open"]
    /\ UNCHANGED <<fs, html, soup, items, n, rows, i, out, stdout, before,
                   created, clobbered>>

\* Lines 29, 6-8: the loop is over; next_available_filename probes base.
ProbeBase(p) ==
    /\ pc[p] = "loop"
    /\ n[p] > Len(items[p])
    /\ IF ~exists(base)
       THEN /\ csv_filename' = [csv_filename EXCEPT ![p] = base]
            /\ pc' = [pc EXCEPT ![p] = "open"]
            /\ UNCHANGED i
       ELSE /\ i' = [i EXCEPT ![p] = 1]
            /\ pc' = [pc EXCEPT ![p] = "probe"]
            /\ UNCHANGED csv_filename
    /\ UNCHANGED <<fs, html, soup, items, n, rows, out, stdout, before,
                   created, clobbered>>

\* Mutant: the test is inverted, the first candidate that exists is returned.
ProbeCandidate_inverted(p) ==
    /\ pc[p] = "probe"
    /\ IF exists(candidate(i[p]))
       THEN /\ csv_filename' = [csv_filename EXCEPT ![p] = candidate(i[p])]
            /\ pc' = [pc EXCEPT ![p] = "open"]
            /\ UNCHANGED i
       ELSE /\ i[p] < MaxIndex
            /\ i' = [i EXCEPT ![p] = i[p] + 1]
            /\ UNCHANGED <<pc, csv_filename>>
    /\ UNCHANGED <<fs, html, soup, items, n, rows, out, stdout, before,
                   created, clobbered>>

\* Lines 9-13: one iteration of the probing loop.
ProbeCandidate(p) ==
    /\ pc[p] = "probe"
    /\ IF ~exists(candidate(i[p]))
       THEN /\ csv_filename' = [csv_filename EXCEPT ![p] = candidate(i[p])]
            /\ pc' = [pc EXCEPT ![p] = "open"]
            /\ UNCHANGED i
       ELSE /\ i[p] < MaxIndex
            /\ i' = [i EXCEPT ![p] = i[p] + 1]
            /\ UNCHANGED <<pc, csv_filename>>
    /\ UNCHANGED <<fs, html, soup, items, n, rows, out, stdout, before,
                   created, clobbered>>

\* Line 30: open(csv_filename, "w").
Open(p) ==
    /\ pc[p] = "open"
    /\ fs' = open_w(csv_filename[p])
    /\ IF exists(csv_filename[p])
       THEN /\ clobbered' = Append(clobbered, <<p, csv_filename[p]>>)
            /\ UNCHANGED created
       ELSE /\ created' = Append(created, <<p, csv_filename[p]>>)
            /\ UNCHANGED clobbered
    /\ out' = [out EXCEPT ![p] = <<>>]
    /\ pc' = [pc EXCEPT ![p] = "header"]
    /\ UNCHANGED <<html, soup, items, n, rows, i, csv_filename, stdout, before>>

\* Lines 31-32.
WriteHeader(p) ==
    /\ pc[p] = "header"
    /\ out' = [out EXCEPT ![p] = out[p] \o writerow(header)]
    /\ n' = [n EXCEPT ![p] = 1]
    /\ pc' = [pc EXCEPT ![p] = "rows"]
    /\ UNCHANGED <<fs, html, soup, items, rows, i, csv_filename, stdout,
                   before, created, clobbered>>

\* Lines 33-34: one iteration of the writing loop.
WriteRow(p) ==
    /\ pc[p] = "rows"
    /\ n[p] <= Len(rows[p])
    /\ out' = [out EXCEPT ![p] = out[p] \o writerow(rows[p][n[p]])]
    /\ n' = [n EXCEPT ![p] = n[p] + 1]
    /\ UNCHANGED <<fs, html, pc, soup, items, rows, i, csv_filename, stdout,
                   before, created, clobbered>>

\* End of the with block of line 30: the file is flushed and closed.
Close(p) ==
    /\ pc[p] = "rows"
    /\ n[p] > Len(rows[p])
    /\ fs' = flush(csv_filename[p], out[p])
    /\ out' = [out EXCEPT ![p] = <<>>]
    /\ pc' = [pc EXCEPT ![p] = "print"]
    /\ UNCHANGED <<html, soup, items, n, rows, i, csv_filename, stdout,
                   before, created, clobbered>>

\* Line 36.
Report(p) ==
    /\ pc[p] = "print"
    /\ stdout' = [stdout EXCEPT ![p] = message(csv_filename[p], Len(rows[p]))]
    /\ pc' = [pc EXCEPT ![p] = "done"]
    /\ UNCHANGED <<fs, html, soup, items, n, rows, i, csv_filename, out,
                   before, created, clobbered>>

\* A run started from the shell after the runs before it have ended.
ReadInputInTurn(p) ==
    /\ \A q \in 1..(p - 1) : pc[q] \in Final
    /\ ReadInput(p)

-----------------------------------------------------------------------------
(* Inputs *)

SeqsUpTo(S, m) == UNION {[1..k -> S] : k \in 0..m}

Span(class_, t) == Elem("span", {class_}, t, <<>>)
Div(class_, t) == Elem("div", {class_}, t, <<>>)
Item(kids) == Elem("div", {"st-content__item"}, <<"\n">>, kids)

OldData == <<"o", "l", "d", "\r", "\n">>

Dirs(pre) ==
    {[path \in Paths |->
        IF path \in S THEN [exists |-> TRUE, data |-> OldData] ELSE Absent] :
     S \in SUBSET pre}

PrePaths == {base} \cup {candidate(k) : k \in 1..(MaxPre - 1)}

Kids ==
    { Span("trn-ign__username", <<" ", "A", "l", "\n">>),
      Span("trn-ign__discriminator", <<"#", "1", " ">>),
      Div("rank", <<"x">>),
      Elem("div", {"rank"}, <<"\n">>, <<Span("label", <<" ", "G", " ">>)>>),
      Div("value", <<" ", "7", " ">>),
      Elem("div", {"value", "hl"}, <<"2", ",">>, <<Span("unit", <<"5", "\n">>)>>),
      Elem("div", {"value"}, <<"a", "\n">>, <<Span("q", <<"\"", "b">>)>>),
      Span("value", <<"z">>) }

Blocks == {Item(kids) : kids \in SeqsUpTo(Kids, MaxKids)}

Tops ==
    { Item(<<Span("trn-ign__username", <<"A", "l">>),
             Span("trn-ign__discriminator", <<"#", "1">>),
             Elem("div", {"rank"}, <<>>, <<Span("label", <<"G">>)>>),
             Div("value", <<"1", "0">>),
             Div("value", <<"2", ",", "5">>)>>),
      Item(<<Span("trn-ign__username", <<"B", "o">>),
             Div("value", <<"5">>)>>),
      Item(<<Elem("div", {"value"}, <<"a", "\n">>, <<Span("q", <<"\"", "b">>)>>)>>),
      Elem("div", {"ad"}, <<>>, <<Div("value", <<"9">>)>>) }

Docs == SeqsUpTo(Tops, MaxItems)

Idle(dirs, docs) ==
    /\ fs \in dirs
    /\ html \in {[readable |-> FALSE, doc |-> <<>>]}
                \cup {[readable |-> TRUE, doc |-> d] : d \in docs}
    /\ pc = [p \in Procs |-> "read"]
    /\ soup = [p \in Procs |-> <<>>]
    /\ items = [p \in Procs |-> <<>>]
    /\ n = [p \in Procs |-> 0]
    /\ rows = [p \in Procs |-> <<>>]
    /\ i = [p \in Procs |-> 0]
    /\ csv_filename = [p \in Procs |-> ""]
    /\ out = [p \in Procs |-> <<>>]
    /\ stdout = [p \in Procs |-> ""]
    /\ before = [p \in Procs |-> fs]
    /\ created = <<>>
    /\ clobbered = <<>>

-----------------------------------------------------------------------------
(* Specifications *)

Steps(p) ==
    \/ ExtractItem(p)
    \/ ProbeBase(p)
    \/ ProbeCandidate(p)
    \/ Open(p)
    \/ WriteHeader(p)
    \/ WriteRow(p)
    \/ Close(p)
    \/ Report(p)

\* Runs one after another, in any directory.
Init == Idle(Dirs(PrePaths), Docs)
Next == \E p \in Procs : ReadInputInTurn(p) \/ Steps(p)
Spec == Init /\ [][Next]_vars

\* Runs one after another, in a directory with no match_stats*.csv file.
InitFresh == Idle(Dirs({}), Docs)
SpecFresh == InitFresh /\ [][Next]_vars

\* One run over every block the bounds allow.
InitExtract == Idle(Dirs({base}), {<<b>> : b \in Blocks})
NextOne == ReadInput(1) \/ Steps(1)
SpecExtract == InitExtract /\ [][NextOne]_vars

\* Runs that interleave freely.
InitRace == Idle(Dirs({base}), SeqsUpTo(Tops, 1))
NextRace == \E p \in Racers : ReadInput(p) \/ Steps(p)
SpecRace == InitRace /\ [][NextRace]_vars

-----------------------------------------------------------------------------
(* What the properties are stated with *)

\* The names the files are expected to get.
ExpectedName(k) ==
    IF k = 0 THEN "match_stats.csv" ELSE "match_stats_" \o ToString(k) \o ".csv"

\* t is s without the white space at its two ends.
IsTrimOf(t, s) ==
    \E a, b \in 0..Len(s) :
        /\ a + b <= Len(s)
        /\ t = SubSeq(s, a + 1, Len(s) - b)
        /\ \A k \in 1..a : s[k] \in Whitespace
        /\ \A k \in (Len(s) - b + 1)..Len(s) : s[k] \in Whitespace
        /\ t = <<>> \/ (t[1] \notin Whitespace /\ t[Len(t)] \notin Whitespace)

\* The elements of a block with a given tag and class, in document order.
Within(block, tag, class_) ==
    LET all == descendants(block.kids)
        Is(e) == e.tag = tag /\ class_ \in e.cls
    IN  SelectSeq(all, Is)

IsItem(e) == e.tag = "div" /\ "st-content__item" \in e.cls

\* The matched blocks of the input document, in document order.
Matched == SelectSeq(descendants(html.doc), IsItem)

\* The header line as it is to stand in the file.
HeaderText ==
    <<"p", "l", "a", "y", "e", "r", ",", "r", "a", "n", "k", ",", "T", "R",
      "S", ",", "A", "C", "S", ",", "K", ",", "D", ",", "A", ",", "+", "/",
      "-", ",", "K", "/", "D", ",", "D", "D", "U+0394", ",", "A", "D", "R",
      ",", "H", "S", "%", ",", "K", "A", "S", "T", ",", "F", "K", ",", "F",
      "D", ",", "M", "K", "\r", "\n">>

\* The m-th smallest element of a set of numbers.
Nth(S, m) == CHOOSE x \in S : Cardinality({y \in S : y < x}) = m - 1

\* A reader of CSV text.  A position is outside quotes when an even number of
\* quote characters stands before it; a record ends at a line terminator
\* outside quotes (text after the last one is one more record), a field at a
\* delimiter outside quotes; a quoted field is read without the two quotes
\* around it and with each doubled quote as one.
Outside(data, k) == Cardinality({j \in 1..(k - 1) : data[j] = "\""}) % 2 = 0

Unquote(raw) ==
    IF raw = <<>> \/ raw[1] # "\"" THEN raw
    ELSE LET inner == SubSeq(raw, 2, Len(raw) - 1)
             keep == {k \in 1..Len(inner) :
                         inner[k] # "\"" \/ ~Outside(inner, k)}
         IN  [m \in 1..Cardinality(keep) |-> inner[Nth(keep, m)]]

Fields(line) ==
    LET cuts == {k \in 1..Len(line) : line[k] = "," /\ Outside(line, k)}
        from(m) == IF m = 1 THEN 1 ELSE Nth(cuts, m - 1) + 1
        to(m) == IF m = Cardinality(cuts) + 1 THEN Len(line)
                 ELSE Nth(cuts, m) - 1
    IN  [m \in 1..(Cardinality(cuts) + 1) |-> Unquote(SubSeq(line, from(m), to(m)))]

Records(data) ==
    LET ends == {k \in 1..(Len(data) - 1) :
                    data[k] = "\r" /\ data[k + 1] = "\n" /\ Outside(data, k)}
        last == IF ends = {} THEN 0 ELSE Nth(ends, Cardinality(ends)) + 1
        count == Cardinality(ends) + (IF last < Len(data) THEN 1 ELSE 0)
        from(m) == IF m = 1 THEN 1 ELSE Nth(ends, m - 1) + 2
        to(m) == IF m = Cardinality(ends) + 1 THEN Len(data)
                 ELSE Nth(ends, m) - 1
    IN  [m \in 1..count |-> Fields(SubSeq(data, from(m), to(m)))]

\* The runs after p have not opened a file yet.
NoLaterOpen(p) ==
    \A q \in Procs : q > p => pc[q] \in {"read", "loop", "probe", "open"}

-----------------------------------------------------------------------------
(* Properties *)

\* C1: runs made one after another in a directory with no match_stats*.csv
\* file create match_stats.csv, match_stats_1.csv, ... in that order, the
\* j-th run the j-th name, these are all the files there are, no open ever
\* truncates a file, and a file whose run has closed it never changes again.
C1_FreshRunsNumberFiles ==
    /\ [](/\ \A j \in 1..Len(created) : created[j] = <<j, ExpectedName(j - 1)>>
          /\ {path \in DOMAIN fs : fs[path].exists}
                = {ExpectedName(j - 1) : j \in 1..Len(created)}
          /\ clobbered = <<>>
          /\ \A p \in Procs : pc[p] = "done" => Len(created) >= p)
    /\ [][\A q \in Procs :
            pc[q] \in {"print", "done"}
                => fs'[csv_filename[q]] = fs[csv_filename[q]]]_vars

C1_Witness ==
    /\ \A p \in Procs : pc[p] = "done"
    /\ Len(created) = NumProcs
    /\ NumProcs >= 3

\* C2: when next_available_filename returns, the path returned does not
\* exist; it is match_stats.csv when that does not exist, and otherwise
\* match_stats_k.csv for the least k >= 1 that does not exist.
C2_LeastFreeName ==
    \A p \in Procs :
        pc[p] = "open" =>
            LET f == csv_filename[p]
            IN  /\ ~fs[f].exists
                /\ IF ~fs["match_stats.csv"].exists
                   THEN f = "match_stats.csv"
                   ELSE \E k \in 1..MaxIndex :
                            /\ f = ExpectedName(k)
                            /\ \A j \in 1..(k - 1) : fs[ExpectedName(j)].exists

C2_Witness ==
    \E p \in Procs :
        /\ pc[p] = "open"
        /\ csv_filename[p] = ExpectedName(1)
        /\ fs[ExpectedName(2)].exists

\* C3: while a run is under way and no later run has opened a file, every
\* file that was there when the run began is there unchanged; when the run
\* is done the directory is the one it began with plus one new file, the
\* path it chose.
C3_OneNewFile ==
    \A p \in Procs :
        (pc[p] # "read" /\ NoLaterOpen(p)) =>
            /\ \A path \in DOMAIN fs :
                   before[p][path].exists => fs[path] = before[p][path]
            /\ pc[p] = "done" =>
                   /\ ~before[p][csv_filename[p]].exists
                   /\ fs[csv_filename[p]].exists
                   /\ \A path \in DOMAIN fs \ {csv_filename[p]} :
                          fs[path] = before[p][path]

C3_Witness ==
    \E p \in Procs :
        /\ pc[p] = "done"
        /\ NoLaterOpen(p)
        /\ \E path \in DOMAIN fs :
               before[p][path].exists /\ fs[path].data = OldData
        /\ fs[csv_filename[p]].exists

\* C4: when match.html cannot be read or parsed the run ends before any name
\* is probed and before any file is opened: nothing is created, nothing is
\* truncated and the directory is as it was.
C4_InputFailureWritesNothing ==
    \A p \in Procs :
        /\ ~html.readable => pc[p] \in {"read", "crashed"}
        /\ pc[p] = "crashed" =>
               /\ ~html.readable
               /\ fs = before[p]
               /\ csv_filename[p] = "" /\ i[p] = 0
               /\ \A j \in 1..Len(created) : created[j][1] # p
               /\ \A j \in 1..Len(clobbered) : clobbered[j][1] # p

C4_Witness ==
    /\ pc[1] = "crashed"
    /\ \E path \in DOMAIN fs : fs[path].exists

\* C5: for a document with no scoreboard item the rows stay empty, the run
\* does not fail, the file it writes holds the header line and nothing else,
\* and the report gives the count 0.
C5_NoBlocksHeaderOnly ==
    \A p \in Procs :
        (html.readable /\ Matched = <<>>) =>
            /\ rows[p] = <<>>
            /\ pc[p] # "crashed"
            /\ pc[p] \in {"print", "done"} =>
                   fs[csv_filename[p]] = [exists |-> TRUE, data |-> HeaderText]
            /\ pc[p] = "done" =>
                   stdout[p] = csv_filename[p]
                       \o " dosyasU+0131na 0 oyuncu baU+015FarU+0131yla yazU+0131ldU+0131."

C5_Witness ==
    \E p \in Procs :
        /\ pc[p] = "done"
        /\ html.doc # <<>>
        /\ Matched = <<>>
        /\ fs[csv_filename[p]].data = HeaderText

\* C6: the first field of every row is the trimmed text of the username
\* element followed directly by the trimmed text of the discriminator
\* element when the block has both, and is empty when the block lacks either
\* of them: one element alone never gives its text to the field.
C6_PlayerTag ==
    \A p \in Procs : \A k \in 1..Len(rows[p]) :
        LET us == Within(Matched[k], "span", "trn-ign__username")
            ds == Within(Matched[k], "span", "trn-ign__discriminator")
            tag == rows[p][k][1]
        IN  IF us # <<>> /\ ds # <<>>
            THEN \E m \in 0..Len(tag) :
                     /\ IsTrimOf(SubSeq(tag, 1, m), text(us[1]))
                     /\ IsTrimOf(SubSeq(tag, m + 1, Len(tag)), text(ds[1]))
            ELSE tag = <<>>

C6_Witness ==
    \E p \in Procs : \E k \in 1..Len(rows[p]) :
        LET us == Within(Matched[k], "span", "trn-ign__username")
            ds == Within(Matched[k], "span", "trn-ign__discriminator")
        IN  /\ us # <<>> /\ ds = <<>>
            /\ ~IsTrimOf(<<>>, text(us[1]))
            /\ rows[p][k][1] = <<>>

\* C7: the second field of every row is the trimmed text of the first span
\* inside the block's rank container when the block has the container and
\* the container has a span, and is empty when either is missing; a missing
\* element does not end the run and does not drop the row.
C7_RankLabel ==
    \A p \in Procs :
        /\ html.readable => pc[p] # "crashed"
        /\ pc[p] \notin {"read", "loop", "crashed"} => Len(rows[p]) = Len(Matched)
        /\ \A k \in 1..Len(rows[p]) :
               LET rs == Within(Matched[k], "div", "rank")
                   IsSpan(e) == e.tag = "span"
                   labels == IF rs = <<>> THEN <<>>
                             ELSE SelectSeq(descendants(rs[1].kids), IsSpan)
               IN  IF labels # <<>>
                   THEN IsTrimOf(rows[p][k][2], text(labels[1]))
                   ELSE rows[p][k][2] = <<>>

C7_Witness ==
    \E p \in Procs : \E k \in 1..Len(rows[p]) :
        LET rs == Within(Matched[k], "div", "rank")
        IN  /\ rs # <<>>
            /\ rs[1].kids = <<>> /\ rs[1].text # <<>>
            /\ rows[p][k][2] = <<>>
            /\ pc[p] = "done"

\* C8: a row has two more fields than its block has value cells, whatever
\* their number, and its fields from the third on are the trimmed texts of
\* the cells in the order of the cells in the block.
C8_RowIsTagRankCells ==
    \A p \in Procs : \A k \in 1..Len(rows[p]) :
        LET vs == Within(Matched[k], "div", "value")
        IN  /\ Len(rows[p][k]) = Len(vs) + 2
            /\ \A j \in 1..Len(vs) : IsTrimOf(rows[p][k][j + 2], text(vs[j]))

C8_Witness ==
    \E p \in Procs : \E k \in 1..Len(rows[p]) :
        /\ Len(rows[p][k]) = MaxKids + 2
        /\ rows[p][k][3] # rows[p][k][4]
        /\ rows[p][k][4] # rows[p][k][5]

C10_ChosenOnProbeAlone ==
    /\ [][\A p \in Procs :
            (pc[p] # "open" /\ pc'[p] = "open") => ~fs[csv_filename'[p]].exists]_vars
    /\ [](\A j \in 1..Len(clobbered) :
            \E m \in 1..Len(created) :
                /\ created[m][2] = clobbered[j][2]
                /\ created[m][1] # clobbered[j][1])

\* Two runs chose the same path and the later open truncated the file of the
\* earlier one.
C10_Witness ==
    \E p, q \in Procs :
        /\ p # q
        /\ pc[p] = "done" /\ pc[q] = "done"
        /\ csv_filename[p] = csv_filename[q]
        /\ \E j \in 1..Len(clobbered) : clobbered[j] = <<q, csv_filename[q]>>
        /\ \E m \in 1..Len(created) : created[m] = <<p, csv_filename[p]>>

=============================================================================
